---------------------------- MODULE Spec2Model ----------------------------
(***************************************************************************)
(* A model of the chunking and retrieval-expansion core of geogpt-rag:     *)
(*   rag_server/text_split_md.py  split_text, extract_outlines,            *)
(*                                refine_structure, split_long_para,       *)
(*                                reset_chunk, merge_chunks, model_predict *)
(*   rag_server/geo_kb.py         add_file, rerank_docs, filter_docs,      *)
(*                                expand_docs, expand_doc,                 *)
(*                                _find_raw_place, _expand                 *)
(* The specifications of the module: SpecSplit (the sentence splitter on   *)
(* the sections of one document), SpecScore (boundary scoring with its     *)
(* retries), SpecAddFile (add_file from the lines of a text to the chunk   *)
(* store and the vector index), SpecReingest (add_file beside a reader of  *)
(* the chunk store), SpecRerank (rerank and filter of one recall),         *)
(* SpecExpand (one expansion worker) and SpecWorkers (the fan-out of       *)
(* expand_docs).                                                           *)
(***************************************************************************)
EXTENDS Integers, Sequences, FiniteSets, TLC

VARIABLES
  \* ingestion (split_text)
  doc,              \* the sections of s_dict, each a sentence run
  max_size,         \* the max_size argument of split_text
  data,             \* the chunk records split_text returns
  reset_calls,      \* per section: the calls of reset_chunk, in call order
  temp_chunks,      \* per section: the fragments reset_chunk appended
  ing_pc,           \* "ready" | "done"
  \* the line normalisation in front of the parser (split_para)
  sp_text,          \* the lines of text.split("\n")
  sp_ls,            \* the list ls split_para returns
  sp_err,           \* the list err of the lines it dropped
  sp_pc,            \* "ready" | "done"
  \* the outline parser in front of it (split_text on the lines of a text)
  ls,               \* the lines of the text, as split_para returns them
  md_max_size,      \* the max_size argument
  sections,         \* sections of refine_structure: sectionIndex -> names
  s_dict,           \* s_dict in iteration order: <<key, lines>> pairs
  md_data,          \* the chunk records returned
  md_pc,            \* "ready" | "done" | "raised"
  \* the stores add_file writes
  chunk_file,       \* the chunk store file at chunk_path
  vector_store,     \* the records add_texts put into the vector index
  file_before,      \* the chunk store file as it was when add_file was called
  af_i,             \* the records of chunk_data written so far
  af_exc,           \* the exception that left add_file, "" if none
  seen,             \* what a reader beside add_file found in the file
  af_pc,            \* "start" | "writing" | "written" | "returned" | "raised"
  \* boundary scoring (model_predict)
  mp_probs,         \* prob[0] the model gives each pair of input_ids
  mp_batch_size,    \* the batch_size argument
  mp_calls,         \* the calls of model_result made: batch size and outcome
  mp_result,        \* predict_result
  mp_exc,           \* the exception that left model_predict, "" if none
  mp_pc,            \* "try1" | "try2" | "try3" | "returned" | "raised"
  \* rerank (rerank_docs)
  chunks,           \* the recalled candidates, in recall order
  pred_scores,      \* the cross-encoder's score of each
  k,                \* the k argument (TOP_K)
  score_threshold,  \* the score_threshold argument
  raw_top_docs,     \* the local raw_top_docs: every candidate, sorted
  top_docs,         \* what rerank_docs returns
  rr_pc,            \* "ready" | "done"
  \* one expansion worker (expand_doc)
  file_exists,      \* os.path.exists(doc["chunk_path"])
  file_readable,    \* open() succeeds and every line is a JSON record
  rows,             \* the records of the candidate's chunk store file
  cand,             \* the candidate (doc) and score handed to the worker
  expand_len,       \* the expand_len argument (EXPAND_RANGE)
  window,           \* id_list of expand_doc (_find_raw_place's result)
  put,              \* the doc the worker puts on its queue
  exp_pc,           \* "ready" | "done" | "fallback" | "raised"
  \* the fan-out (expand_docs)
  docs,             \* the (doc, score) tuples rerank_docs returned
  ed_expand_len,    \* the expand_len argument of expand_docs
  jobs,             \* the state of each worker process
  res,              \* the queue of each worker
  results,          \* the list expand_docs builds
  ed_i,             \* the index i of the collecting loop
  ed_exc,           \* the exception that left expand_docs, "" if none
  put_order,        \* the workers in the order their q.put happened
  ed_pc             \* "start" | "collect" | "returned" | "raised"

splitVars  == <<doc, max_size, data, reset_calls, temp_chunks, ing_pc>>
rerankVars == <<chunks, pred_scores, k, score_threshold, raw_top_docs, top_docs, rr_pc>>
expandVars == <<file_exists, file_readable, rows, cand, expand_len, window, put, exp_pc>>
workerVars == <<docs, ed_expand_len, jobs, res, results, ed_i, ed_exc, put_order, ed_pc>>
parseVars  == <<ls, md_max_size, sections, s_dict, md_data, md_pc>>
storeVars  == <<chunk_file, vector_store, file_before, af_i, af_exc, seen, af_pc>>
scoreVars  == <<mp_probs, mp_batch_size, mp_calls, mp_result, mp_exc, mp_pc>>
lineVars   == <<sp_text, sp_ls, sp_err, sp_pc>>
vars == <<splitVars, rerankVars, expandVars, workerVars, parseVars, storeVars, scoreVars,
          lineVars>>

-----------------------------------------------------------------------------
(* Helpers on sequences and sets.                                          *)

Min2(a, b) == IF a <= b THEN a ELSE b
Max2(a, b) == IF a >= b THEN a ELSE b

SetMin(S) == CHOOSE x \in S : \A y \in S : x <= y
SetMax(S) == CHOOSE x \in S : \A y \in S : x >= y

RECURSIVE SeqSum(_)
SeqSum(s) == IF s = <<>> THEN 0 ELSE Head(s) + SeqSum(Tail(s))

RECURSIVE Flatten(_)
Flatten(ss) == IF ss = <<>> THEN <<>> ELSE Head(ss) \o Flatten(Tail(ss))

Range(s) == {s[j] : j \in DOMAIN s}

-----------------------------------------------------------------------------
(* Ingestion: text_split_md.py                                             *)

\* Bounds of the ingestion model.
MaxSents == 3

\* The wordpiece counts a sentence may have, the scaled chunk budgets, and the
\* boundary scores (prob[0] of the classifier, scaled: ScoreOne stands for 1.0).
WordCounts == {1, 2, 6}
MaxSizes == {4, 7}
ScoreOne == 2
Scores == 0..ScoreOne

\* BertTokenizer wraps every encoding in [CLS] ... [SEP]; a pair encoding has
\* one more [SEP].  ScorerWindow is the max_length of the pair encoding, scaled.
SpecialTokens == 2
PairSpecialTokens == 3
ScorerWindow == 7

\* len(tokz(text).input_ids) for a text of `words` wordpieces.
TokLen(words) == words + SpecialTokens

\* A sentence as the document holds it: its wordpiece count and the
\* classifier's prob[0] for the pair (previous sentence, this sentence).
SentIn == [w : WordCounts, p : Scores]

\* The sentence runs of n sentences; the first sentence has no predecessor, so
\* its p is never read and is fixed.
RunsOfLen(n) == {r \in [1..n -> SentIn] : r[1].p = ScoreOne}

RECURSIVE DocsOf(_)
DocsOf(budget) ==
  {<<>>} \cup
  UNION { UNION { { <<r>> \o d : d \in DocsOf(budget - n) } : r \in RunsOfLen(n) }
          : n \in 1..budget }

\* The documents of the model: up to MaxSents sentences in all, in one or
\* more sections.
Docs == DocsOf(MaxSents) \ {<<>>}

\* Line 168-179: the pairs whose joint encoding is longer than the window are
\* skipped; sent_ids holds the (0-based) index of the latter sentence of the
\* others.
PairLen(run, j) == run[j - 1].w + run[j].w + PairSpecialTokens
sent_ids(run) == {j - 1 : j \in {x \in 2..Len(run) : PairLen(run, x) <= ScorerWindow}}

\* (a scorer whose default for a skipped pair is the lowest score)
predict_chunk_zero(run) ==
  [j \in 1..Len(run) |->
     [i |-> j - 1, sen |-> j, t_size |-> run[j].w + SpecialTokens,
      score |-> IF (j - 1) \in sent_ids(run) THEN run[j].p ELSE 0]]

\* Lines 163-191: results defaults to [1, 1]; the scored pairs overwrite it.
\* A sentence is [i, sen, t_size, score]; sen is the sentence's text, named
\* by its position in the paragraph.
predict_chunk(run) ==
  [j \in 1..Len(run) |->
     [i |-> j - 1, sen |-> j, t_size |-> TokLen(run[j].w),
      score |-> IF (j - 1) \in sent_ids(run) THEN run[j].p ELSE ScoreOne]]

total_of(sentences) == SeqSum([j \in 1..Len(sentences) |-> sentences[j].t_size])

\* (a cut at the last position holding the minimum score)
min_score_ind_last(sentences) ==
  LET n == Len(sentences)
      m == CHOOSE x \in {sentences[j].score : j \in 2..n} :
             \A j \in 2..n : x <= sentences[j].score
  IN (CHOOSE j \in 2..n : sentences[j].score = m
                          /\ \A x \in 2..n : sentences[x].score = m => x <= j) - 1

\* new_score.index(min(new_score)) + 1: the first position, from the second
\* sentence on, holding the minimum score (0-based, as in the code).
min_score_ind(sentences) ==
  LET n == Len(sentences)
      m == SetMin({sentences[j].score : j \in 2..n})
  IN SetMin({j \in 2..n : sentences[j].score = m}) - 1

\* (a splitter whose right half starts one sentence late)
RECURSIVE reset_chunk_drop(_, _)
reset_chunk_drop(sentences, max_token_size) ==
  IF Len(sentences) < 1 THEN <<>>
  ELSE IF Len(sentences) = 1 THEN <<sentences>>
  ELSE IF total_of(sentences) <= max_token_size THEN <<sentences>>
  ELSE LET ind == min_score_ind(sentences)
           r_sens == SubSeq(sentences, 1, ind)
           l_sens == SubSeq(sentences, ind + 2, Len(sentences))
       IN reset_chunk_drop(r_sens, max_token_size)
            \o reset_chunk_drop(l_sens, max_token_size)

\* (a splitter that never cuts)
reset_chunk_whole(sentences, max_token_size) ==
  IF Len(sentences) < 1 THEN <<>> ELSE <<sentences>>

\* reset_chunk: the fragments appended to new_chunks, in order.
RECURSIVE reset_chunk(_, _)
reset_chunk(sentences, max_token_size) ==
  IF Len(sentences) < 1 THEN <<>>
  ELSE IF Len(sentences) = 1 THEN <<sentences>>
  ELSE IF total_of(sentences) <= max_token_size THEN <<sentences>>
  ELSE LET ind == min_score_ind(sentences)
           r_sens == SubSeq(sentences, 1, ind)
           l_sens == SubSeq(sentences, ind + 1, Len(sentences))
       IN reset_chunk(r_sens, max_token_size) \o reset_chunk(l_sens, max_token_size)

\* The calls of reset_chunk in the order they are made: the sentences of each
\* and the position ind it cut at, 0 when it cut nowhere.
RECURSIVE reset_trace(_, _)
reset_trace(sentences, max_token_size) ==
  IF Len(sentences) < 1 THEN <<[sentences |-> sentences, ind |-> 0]>>
  ELSE IF Len(sentences) = 1 THEN <<[sentences |-> sentences, ind |-> 0]>>
  ELSE IF total_of(sentences) <= max_token_size
       THEN <<[sentences |-> sentences, ind |-> 0]>>
  ELSE LET ind == min_score_ind(sentences)
           r_sens == SubSeq(sentences, 1, ind)
           l_sens == SubSeq(sentences, ind + 1, Len(sentences))
       IN <<[sentences |-> sentences, ind |-> ind]>>
            \o reset_trace(r_sens, max_token_size) \o reset_trace(l_sens, max_token_size)

\* merge_chunks: the loop's state after the fragments chunks[1..n].
RECURSIVE merge_loop(_, _, _)
merge_loop(frags, n, max_token_size) ==
  IF n = 0 THEN [prev_sum_size |-> 0, n_chunks |-> <<>>, cur_chunk |-> <<>>]
  ELSE LET st == merge_loop(frags, n - 1, max_token_size)
           rc == frags[n]
           total_size == total_of(rc)
       IN IF st.prev_sum_size + total_size > max_token_size
          THEN [prev_sum_size |-> total_size,
                n_chunks |-> IF Len(st.cur_chunk) > 0
                             THEN Append(st.n_chunks, st.cur_chunk)
                             ELSE st.n_chunks,
                cur_chunk |-> rc]
          ELSE [prev_sum_size |-> st.prev_sum_size + total_size,
                n_chunks |-> st.n_chunks,
                cur_chunk |-> st.cur_chunk \o rc]

\* (a merger that ignores the budget)
merge_chunks_all(frags, max_token_size) == <<Flatten(frags)>>

\* (a merger that never joins two fragments)
merge_chunks_none(frags, max_token_size) == frags

merge_chunks(frags, max_token_size) ==
  LET st == merge_loop(frags, Len(frags), max_token_size)
  IN Append(st.n_chunks, st.cur_chunk)

\* sorted(seq, key=...): Python's stable ascending sort, keys[j] the key of seq[j].
sorted_by(seq, keys) ==
  LET n == Len(seq)
      rank(j) == Cardinality({x \in 1..n : keys[x] < keys[j]
                                            \/ (keys[x] = keys[j] /\ x < j)}) + 1
  IN [r \in 1..n |-> seq[CHOOSE j \in 1..n : rank(j) = r]]

\* split_long_para: the (text, length) pairs of one paragraph.  A text is the
\* sequence of its sentences (joined by single spaces in the code).
split_long_para(run, max_token_size) ==
  IF Len(run) <= 1
  THEN [j \in 1..Len(run) |-> [text |-> <<j>>, length |-> TokLen(run[j].w)]]
  ELSE LET predict_chunks == <<predict_chunk(run)>>
           reset_chunks == Flatten([c \in 1..Len(predict_chunks) |->
                              reset_chunk(predict_chunks[c], max_token_size)])
           merged == merge_chunks(reset_chunks, max_token_size)
           inner == [c \in 1..Len(merged) |->
                       sorted_by(merged[c], [j \in 1..Len(merged[c]) |-> merged[c][j].i])]
           outer == sorted_by(inner, [c \in 1..Len(inner) |-> inner[c][1].i])
       IN [c \in 1..Len(outer) |->
             [text |-> [j \in 1..Len(outer[c]) |-> outer[c][j].sen],
              length |-> total_of(outer[c])]]

\* Line 425-426: the paragraph of a section and its token count.
para_words(run) == SeqSum([j \in 1..Len(run) |-> run[j].w])
para_size(run) == TokLen(para_words(run))

\* Lines 428-432: n_paras of one section.
n_paras(run, max) ==
  IF para_size(run) > max
  THEN split_long_para(run, max)
  ELSE <<[text |-> [j \in 1..Len(run) |-> j], length |-> para_size(run)]>>

\* Lines 428-429 and 160: reset_chunk runs for a section longer than max
\* that has more than one sentence.
splitter_runs(run, max) == para_size(run) > max /\ Len(run) > 1

\* Lines 422-438: data after the first n sections of s_dict; r_index is
\* Len(data), the counter never being reset.
RECURSIVE split_sections(_, _, _)
split_sections(d, n, max) ==
  IF n = 0 THEN <<>>
  ELSE LET before == split_sections(d, n - 1, max)
           paras == n_paras(d[n], max)
       IN before \o [c \in 1..Len(paras) |->
                       [section |-> n, index |-> Len(before) + c - 1,
                        text |-> paras[c].text, length |-> paras[c].length]]

split_text(d, max) == split_sections(d, Len(d), max)

InitSplit ==
  /\ doc \in Docs
  /\ max_size \in MaxSizes
  /\ data = <<>>
  /\ reset_calls = <<>>
  /\ temp_chunks = <<>>
  /\ ing_pc = "ready"

IdleSplit ==
  /\ doc = <<>>
  /\ max_size = 0
  /\ data = <<>>
  /\ reset_calls = <<>>
  /\ temp_chunks = <<>>
  /\ ing_pc = "idle"

\* add_file's call of split_text (geo_kb.py line 97).
SplitText ==
  /\ ing_pc = "ready"
  /\ data' = split_text(doc, max_size)
  /\ reset_calls' = [s \in 1..Len(doc) |->
                       IF splitter_runs(doc[s], max_size)
                       THEN reset_trace(predict_chunk(doc[s]), max_size) ELSE <<>>]
  /\ temp_chunks' = [s \in 1..Len(doc) |->
                       IF splitter_runs(doc[s], max_size)
                       THEN reset_chunk(predict_chunk(doc[s]), max_size) ELSE <<>>]
  /\ ing_pc' = "done"
  /\ UNCHANGED <<doc, max_size, rerankVars, expandVars, workerVars, parseVars, storeVars, scoreVars, lineVars>>
-----------------------------------------------------------------------------
(* Line normalisation: text_split_md.py split_para.                        *)

\* Bound of the line model: the lines of a text.
MaxRaw == 4

\* A line of text.split("\n"): what is left of it after strip() -- nothing
\* ("blank"), a paragraph text or a text that starts with '#' -- and whether
\* it carries whitespace around that.  The empty string is the blank line
\* without whitespace.
RawLine(kind, id, pad) == [kind |-> kind, id |-> id, pad |-> pad]
RawLines ==
  {RawLine("blank", "", FALSE), RawLine("blank", "", TRUE),
   RawLine("para", "a", FALSE), RawLine("para", "a", TRUE),
   RawLine("para", "b", FALSE), RawLine("heading", "# H", FALSE)}

\* str.strip(), `i == ""` and str.startswith("#").
strip(line) == [line EXCEPT !.pad = FALSE]
is_empty(line) == line.kind = "blank" /\ ~line.pad
startswith_hash(line) == line.kind = "heading"

\* Line 308: [i.strip() for i in text.split("\n") if i].
ls_0(text) ==
  LET kept == SelectSeq(text, LAMBDA i : ~is_empty(i))
  IN [j \in 1..Len(kept) |-> strip(kept[j])]

\* (a loop that compares a line with the line before it only)
RECURSIVE split_para_adjacent(_)
split_para_adjacent(text) ==
  LET l0 == SelectSeq(ls_0(text), LAMBDA i : ~is_empty(i))
      n == Len(l0)
  IN IF n = 0 THEN [ls |-> <<>>, err |-> <<>>]
     ELSE LET st == split_para_adjacent(SubSeq(l0, 1, n - 1))
          IN IF ~startswith_hash(l0[n]) /\ n > 1 /\ l0[n - 1] = l0[n]
             THEN [st EXCEPT !.err = Append(st.err, l0[n])]
             ELSE [st EXCEPT !.ls = Append(st.ls, l0[n])]

\* Lines 311-317: the loop of split_para after ls_0[1..n].
RECURSIVE split_para_loop(_, _)
split_para_loop(l0, n) ==
  IF n = 0 THEN [ls |-> <<>>, err |-> <<>>]
  ELSE LET st == split_para_loop(l0, n - 1)
           i == l0[n]
       IN IF is_empty(i) THEN st
          ELSE IF ~startswith_hash(i) /\ (\E x \in 1..Len(st.ls) : st.ls[x] = i)
               THEN [st EXCEPT !.err = Append(st.err, i)]
               ELSE [st EXCEPT !.ls = Append(st.ls, i)]

\* split_para: ls, which it returns, and err, which it drops.
split_para(text) == split_para_loop(ls_0(text), Len(ls_0(text)))

RawTexts == UNION { [1..n -> RawLines] : n \in 0..MaxRaw }

InitLines ==
  /\ sp_text \in RawTexts
  /\ sp_ls = <<>>
  /\ sp_err = <<>>
  /\ sp_pc = "ready"

IdleLines ==
  /\ sp_text = <<>>
  /\ sp_ls = <<>>
  /\ sp_err = <<>>
  /\ sp_pc = "idle"

\* split_text's call of split_para (line 417).
SplitPara ==
  /\ sp_pc = "ready"
  /\ sp_ls' = split_para(sp_text).ls
  /\ sp_err' = split_para(sp_text).err
  /\ sp_pc' = "done"
  /\ UNCHANGED <<sp_text, splitVars, rerankVars, expandVars, workerVars, parseVars,
                 storeVars, scoreVars>>

-----------------------------------------------------------------------------
(* The outline parser: text_split_md.py extract_outlines, refine_structure, *)
(* and split_text on the lines of a text.                                  *)

\* Bound of the parser model: the lines of a text.
MaxLines == 4

\* A line: its count of leading '#' (cal_size), the heading's text after the
\* '#'s ("" for a paragraph line), its wordpieces and, taken as a sentence,
\* the classifier's prob[0] against the line before it.  The texts of the
\* model carry no bold markup, so b_text is False on every line.  The
\* paragraph lines of a text differ in their wording (split_para keeps no
\* paragraph line twice); the record holds the size only.
Heading(h, n) == [hashes |-> h, name |-> n, w |-> 1, p |-> ScoreOne]
Para(words) == [hashes |-> 0, name |-> "", w |-> words, p |-> 1]
LineKinds ==
  {Heading(1, "Title"), Heading(2, "Introduction"), Heading(2, "Methods"),
   Heading(2, "References"), Heading(2, "Acknowledgment"), Heading(3, "Methods"),
   Para(2)}

\* Scenario A of the specification, scaled: the sections "Introduction" and
\* "Conclusion", each of 4 tokens (for 300), with MAX_SIZE 7 (for 512).
ScenarioALines ==
  << Heading(2, "Introduction"), Para(2), Heading(2, "Conclusion"), Para(2) >>
ScenarioAMaxSize == ScorerWindow

\* Line 13-14.
SECTIONS == {"abstract", "introduction", "conclusion", "acknowledgement", "reference"}
FILTERED_SECTIONS == {"acknowledgement", "reference", "acknowledgment"}

\* The keywords of the two lists that occur in text.lower().
KeywordsIn(text) ==
  CASE text = "Introduction" -> {"introduction"}
    [] text = "Conclusion" -> {"conclusion"}
    [] text = "References" -> {"reference"}
    [] text = "Acknowledgment" -> {"acknowledgment"}
    [] OTHER -> {}

cal_size(ele) == ele.hashes
check_section(text) == \E i \in SECTIONS : i \in KeywordsIn(text)
filter_section(text) == \E i \in FILTERED_SECTIONS : i \in KeywordsIn(text)

\* Python values of line 338: a bool is the int 0 or 1; `a or b` is a when a
\* is true, else b; == compares the numbers.
BoolVal(b) == [kind |-> "bool", num |-> IF b THEN 1 ELSE 0]
IntVal(n) == [kind |-> "int", num |-> n]
PyOr(a, b) == IF a.num # 0 THEN a ELSE b
PyEq(a, b) == a.num = b.num

\* re.search(r'#+ ', ele): a heading line; no paragraph of the model holds "# ".
has_match(ele) == ele.hashes > 0
b_text(ele) == FALSE

\* raw_dict[key].append(ele) on a defaultdict(list).
raw_append(rd, key, ele) ==
  [x \in DOMAIN rd \cup {key} |->
     IF x = key THEN (IF key \in DOMAIN rd THEN Append(rd[key], ele) ELSE <<ele>>)
     ELSE rd[x]]

\* Lines 368-375.
info0 ==
  [raw_dict |-> [x \in {} |-> <<>>], sections |-> [x \in {0} |-> <<"", "">>],
   title |-> "", s_index |-> 0, section |-> "", subsection |-> ""]

\* (a title branch that only records the title)
extract_title_keep(info, ele) == [info EXCEPT !.title = ele.name]

\* extract_title, processed branch.
extract_title(info, ele) ==
  [raw_dict |-> [x \in {} |-> <<>>], sections |-> [x \in {0} |-> <<"", "">>],
   title |-> ele.name, s_index |-> 0, section |-> "", subsection |-> ""]

\* extract_section: the condition of line 338,
\* match and ((check_section(...) or cal_size(ele)) == 2).
is_section(ele) ==
  has_match(ele) /\ PyEq(PyOr(BoolVal(check_section(ele.name)), IntVal(cal_size(ele))),
                         IntVal(2))

\* extract_section, processed branch.
extract_section(info, ele) ==
  [info EXCEPT !.section = ele.name, !.subsection = "",
               !.s_index = info.s_index + 1,
               !.sections = [x \in DOMAIN info.sections \cup {info.s_index + 1} |->
                               IF x = info.s_index + 1 THEN <<ele.name, "">>
                               ELSE info.sections[x]]]

\* extract_subsection, processed branch of a heading (no text left on the line).
extract_subsection(info, ele) ==
  [info EXCEPT !.subsection = ele.name,
               !.s_index = info.s_index + 1,
               !.sections = [x \in DOMAIN info.sections \cup {info.s_index + 1} |->
                               IF x = info.s_index + 1 THEN <<info.section, ele.name>>
                               ELSE info.sections[x]]]

\* Lines 377-397: the loop of extract_outlines after ls[1..n].
RECURSIVE extract_outlines(_, _)
extract_outlines(lines, n) ==
  IF n = 0 THEN info0
  ELSE LET info == extract_outlines(lines, n - 1)
           ele == lines[n]
           heading == has_match(ele) \/ b_text(ele)
       IN IF heading /\ cal_size(ele) = 1 THEN extract_title(info, ele)
          ELSE IF heading /\ is_section(ele) THEN extract_section(info, ele)
          ELSE IF heading /\ (cal_size(ele) = 3 \/ b_text(ele))
               THEN extract_subsection(info, ele)
          ELSE [info EXCEPT !.raw_dict = raw_append(info.raw_dict, info.s_index, ele)]

\* reset_section: without any main section name, the subsection names move up.
reset_section(sections_dict) ==
  IF \A i \in DOMAIN sections_dict : sections_dict[i][1] = ""
  THEN [i \in DOMAIN sections_dict |-> <<sections_dict[i][2], "">>]
  ELSE sections_dict

\* merge_ele joins neighbouring lines into paragraphs; the words and their
\* order, which is all split_text reads of them, stay as they are.
merge_ele(lines) == lines

\* Lines 406-412: the loop over the keys of sections, which were inserted in
\* increasing order; stopped holds once the break of line 409 was taken.
RECURSIVE refine_loop(_, _, _)
refine_loop(secs, rd, n) ==
  IF n < 0 THEN [s_dict |-> <<>>, stopped |-> FALSE]
  ELSE LET st == refine_loop(secs, rd, n - 1)
       IN IF st.stopped \/ n \notin DOMAIN rd THEN st
          ELSE IF filter_section(secs[n][1]) THEN [st EXCEPT !.stopped = TRUE]
          ELSE [st EXCEPT !.s_dict = Append(st.s_dict, <<n, merge_ele(rd[n])>>)]

refine_structure(info) ==
  LET secs == reset_section(info.sections)
  IN [sections |-> secs,
      s_dict |-> refine_loop(secs, info.raw_dict, info.s_index).s_dict]

\* The sentence run of a paragraph list: every line is taken as one sentence.
run_of(s_list) == [j \in 1..Len(s_list) |-> [w |-> s_list[j].w, p |-> s_list[j].p]]

\* (a chunk loop that restarts the counter in every section)
RECURSIVE md_sections_reset(_, _, _, _)
md_sections_reset(secs, sd, n, max) ==
  IF n = 0 THEN <<>>
  ELSE LET before == md_sections_reset(secs, sd, n - 1, max)
           i == sd[n][1]
           paras == n_paras(run_of(sd[n][2]), max)
       IN before \o [c \in 1..Len(paras) |->
                       [section |-> secs[i][1], subsection |-> secs[i][2],
                        s_index |-> i, index |-> c - 1,
                        text |-> paras[c].text, length |-> paras[c].length]]

\* Lines 422-436: data after the first n entries of s_dict.  s_index is the
\* key i of the loop that emitted the record (the dict of line 434 does not
\* hold it); r_index is Len(data).
RECURSIVE md_sections(_, _, _, _)
md_sections(secs, sd, n, max) ==
  IF n = 0 THEN <<>>
  ELSE LET before == md_sections(secs, sd, n - 1, max)
           i == sd[n][1]
           paras == n_paras(run_of(sd[n][2]), max)
       IN before \o [c \in 1..Len(paras) |->
                       [section |-> secs[i][1], subsection |-> secs[i][2],
                        s_index |-> i, index |-> Len(before) + c - 1,
                        text |-> paras[c].text, length |-> paras[c].length]]

Texts == UNION { [1..n -> LineKinds] : n \in 1..MaxLines }

InitParse ==
  /\ \/ ls \in Texts /\ md_max_size \in MaxSizes
     \/ ls = ScenarioALines /\ md_max_size = ScenarioAMaxSize
  /\ sections = [x \in {} |-> <<>>]
  /\ s_dict = <<>>
  /\ md_data = <<>>
  /\ md_pc = "ready"

IdleParse ==
  /\ ls = <<>>
  /\ md_max_size = 0
  /\ sections = [x \in {} |-> <<>>]
  /\ s_dict = <<>>
  /\ md_data = <<>>
  /\ md_pc = "idle"

-----------------------------------------------------------------------------
(* Ingestion into the stores: geo_kb.py add_file                           *)

\* A chunk store file: whether it exists and the records it holds.
NoFile == [exists |-> FALSE, rows |-> <<>>]
FileOf(rs) == [exists |-> TRUE, rows |-> rs]

\* The store an earlier add_file of a text of the same base name left:
\* two paragraphs that were split into two chunks.
PreviousText == << Para(2), Para(2) >>
PreviousData ==
  LET r == refine_structure(extract_outlines(PreviousText, Len(PreviousText)))
  IN md_sections(r.sections, r.s_dict, Len(r.s_dict), SetMin(MaxSizes))

\* split_text reaches model_predict (line 180) when a section is longer than
\* max_size and has more than one sentence.
scoring_needed(lines, max) ==
  LET sd == refine_structure(extract_outlines(lines, Len(lines))).s_dict
  IN \E e \in 1..Len(sd) :
       para_size(run_of(sd[e][2])) > max /\ Len(sd[e][2]) > 1

\* The texts of the model in which a reader runs beside add_file.
ReingestTexts ==
  UNION { [1..n -> {Heading(2, "Methods"), Para(2)}] : n \in 1..MaxLines }

InitStore ==
  /\ \/ chunk_file = NoFile /\ vector_store = <<>>
     \/ chunk_file = FileOf(PreviousData) /\ vector_store = PreviousData
  /\ file_before = chunk_file
  /\ af_i = 0
  /\ af_exc = ""
  /\ seen = <<>>
  /\ af_pc = "start"

IdleStore ==
  /\ chunk_file = NoFile
  /\ vector_store = <<>>
  /\ file_before = NoFile
  /\ af_i = 0
  /\ af_exc = ""
  /\ seen = <<>>
  /\ af_pc = "idle"

\* Line 97: split_text returns.
AddFileSplit ==
  /\ af_pc = "start"
  /\ md_pc = "ready"
  /\ LET r == refine_structure(extract_outlines(ls, Len(ls)))
     IN /\ sections' = r.sections
        /\ s_dict' = r.s_dict
        /\ md_data' = md_sections(r.sections, r.s_dict, Len(r.s_dict), md_max_size)
  /\ md_pc' = "done"
  /\ UNCHANGED <<ls, md_max_size, storeVars,
                 splitVars, rerankVars, expandVars, workerVars, scoreVars, lineVars>>

\* Line 97: model_predict ran out of retries; the RuntimeError leaves
\* split_text and add_file.
AddFileSplitRaises ==
  /\ af_pc = "start"
  /\ md_pc = "ready"
  /\ scoring_needed(ls, md_max_size)
  /\ md_pc' = "raised"
  /\ af_pc' = "raised"
  /\ af_exc' = "RuntimeError"
  /\ UNCHANGED <<ls, md_max_size, sections, s_dict, md_data,
                 chunk_file, vector_store, file_before, af_i, seen,
                 splitVars, rerankVars, expandVars, workerVars, scoreVars, lineVars>>

\* Line 100: open(chunk_path, mode='w') creates the file or empties it.
OpenChunkFile ==
  /\ af_pc = "start"
  /\ md_pc = "done"
  /\ chunk_file' = FileOf(<<>>)
  /\ af_pc' = IF Len(md_data) = 0 THEN "written" ELSE "writing"
  /\ UNCHANGED <<vector_store, file_before, af_i, af_exc, seen, parseVars,
                 splitVars, rerankVars, expandVars, workerVars, scoreVars, lineVars>>

\* Line 100: open raises (the directory cannot be written).
OpenRaises ==
  /\ af_pc = "start"
  /\ md_pc = "done"
  /\ af_pc' = "raised"
  /\ af_exc' = "OSError"
  /\ UNCHANGED <<chunk_file, vector_store, file_before, af_i, seen, parseVars,
                 splitVars, rerankVars, expandVars, workerVars, scoreVars, lineVars>>

\* Lines 101-104: one record is written.
WriteRow ==
  /\ af_pc = "writing"
  /\ chunk_file' = FileOf(Append(chunk_file.rows, md_data[af_i + 1]))
  /\ af_i' = af_i + 1
  /\ af_pc' = IF af_i + 1 = Len(md_data) THEN "written" ELSE "writing"
  /\ UNCHANGED <<vector_store, file_before, af_exc, seen, parseVars,
                 splitVars, rerankVars, expandVars, workerVars, scoreVars, lineVars>>

\* Lines 101-104: f.write raises (the device is full).
WriteRaises ==
  /\ af_pc = "writing"
  /\ af_pc' = "raised"
  /\ af_exc' = "OSError"
  /\ UNCHANGED <<chunk_file, vector_store, file_before, af_i, seen, parseVars,
                 splitVars, rerankVars, expandVars, workerVars, scoreVars, lineVars>>

\* Lines 105-114: the texts and their metadata are added to the vector store.
AddTexts ==
  /\ af_pc = "written"
  /\ vector_store' = vector_store \o md_data
  /\ af_pc' = "returned"
  /\ UNCHANGED <<chunk_file, file_before, af_i, af_exc, seen, parseVars,
                 splitVars, rerankVars, expandVars, workerVars, scoreVars, lineVars>>

\* Lines 111-114: add_texts raises (the embedding model or Milvus fails)
\* while there are texts to add.
AddTextsRaises ==
  /\ af_pc = "written"
  /\ Len(md_data) > 0
  /\ af_pc' = "raised"
  /\ af_exc' = "MilvusException"
  /\ UNCHANGED <<chunk_file, vector_store, file_before, af_i, seen, parseVars,
                 splitVars, rerankVars, expandVars, workerVars, scoreVars, lineVars>>

\* expand_doc lines 230-236 in a worker of a query that runs beside add_file:
\* what os.path.exists and readlines find at that moment.
ReaderReads ==
  /\ af_pc # "idle"
  /\ seen = <<>>
  /\ seen' = <<chunk_file>>
  /\ UNCHANGED <<chunk_file, vector_store, file_before, af_i, af_exc, af_pc, parseVars,
                 splitVars, rerankVars, expandVars, workerVars, scoreVars, lineVars>>

-----------------------------------------------------------------------------
(* Boundary scoring with retries: text_split_md.py model_predict           *)

\* Bound of the scoring model: the sentence pairs handed to model_predict.
MaxPairs == 3

\* Line 35: the default batch_size, the only one split_long_para uses.
DefaultBatchSize == 64

\* What model_result can raise: torch's out-of-memory error is a
\* RuntimeError; ValueError stands for any exception that is not one.
ScoreErrors == {"RuntimeError", "ValueError"}

\* (retries that keep the batch size)
attempt_batch_same(batch_size, attempt) == batch_size

\* Lines 40, 47, 52: the batch size of the first, second and third call.
attempt_batch(batch_size, attempt) ==
  CASE attempt = 1 -> batch_size
    [] attempt = 2 -> batch_size \div 2
    [] attempt = 3 -> batch_size \div 4

\* model_result, lines 64-80: prob[0] of every pair, batch after batch.
model_result(probs, batch_size) ==
  LET batch_num == (Len(probs) + batch_size - 1) \div batch_size
  IN Flatten([b \in 1..batch_num |->
                SubSeq(probs, batch_size * (b - 1) + 1,
                       Min2(batch_size * b, Len(probs)))])

InitScore ==
  /\ \E n \in 0..MaxPairs : mp_probs \in [1..n -> Scores]
  /\ mp_batch_size = DefaultBatchSize
  /\ mp_calls = <<>>
  /\ mp_result = <<>>
  /\ mp_exc = ""
  /\ mp_pc = "try1"

IdleScore ==
  /\ mp_probs = <<>>
  /\ mp_batch_size = 0
  /\ mp_calls = <<>>
  /\ mp_result = <<>>
  /\ mp_exc = ""
  /\ mp_pc = "idle"

\* The number of the attempt model_predict is about to make.
attempt_no == CASE mp_pc = "try1" -> 1 [] mp_pc = "try2" -> 2 [] mp_pc = "try3" -> 3

\* A call of model_result returns: model_predict returns its result (line 54).
ModelResultReturns ==
  /\ mp_pc \in {"try1", "try2", "try3"}
  /\ LET bs == attempt_batch(mp_batch_size, attempt_no)
     IN /\ mp_calls' = Append(mp_calls, [batch_size |-> bs, outcome |-> "ok"])
        /\ mp_result' = model_result(mp_probs, bs)
  /\ mp_pc' = "returned"
  /\ UNCHANGED <<mp_probs, mp_batch_size, mp_exc,
                 splitVars, rerankVars, expandVars, workerVars, parseVars, storeVars, lineVars>>

\* A call of model_result raises; without a pair the model is never run
\* (batch_num is 0).  Lines 41 and 48 handle RuntimeError in the first and
\* second call only.
ModelResultRaises ==
  /\ mp_pc \in {"try1", "try2", "try3"}
  /\ Len(mp_probs) > 0
  /\ \E e \in ScoreErrors :
       /\ mp_calls' = Append(mp_calls, [batch_size |-> attempt_batch(mp_batch_size, attempt_no),
                                        outcome |-> e])
       /\ IF e = "RuntimeError" /\ mp_pc # "try3"
          THEN /\ mp_pc' = (IF mp_pc = "try1" THEN "try2" ELSE "try3")
               /\ mp_exc' = mp_exc
          ELSE /\ mp_pc' = "raised"
               /\ mp_exc' = e
  /\ UNCHANGED <<mp_probs, mp_batch_size, mp_result,
                 splitVars, rerankVars, expandVars, workerVars, parseVars, storeVars, lineVars>>

-----------------------------------------------------------------------------
(* Rerank and filter: geo_kb.py rerank_docs, filter_docs                   *)

\* Bounds of the rerank model: the candidates recalled, and the score levels
\* (a score s stands for the float s / 2, so SCORE_THRESHOLD 1.5 is 3).
MaxRecall == 4
MaxRerankScore == 3
RerankScores == 0..MaxRerankScore
Thresholds == {1, 3}
TopKs == {1, 2, 3}

\* Python values, tagged with their type: the metadata dict of a candidate
\* (named by its place in the recall order) and a float.
DictVal(c) == [kind |-> "dict", id |-> c]
FloatVal(x) == [kind |-> "float", num |-> x]

\* key in tup, for a str key and a tuple: true when an element equals the key.
\* A dict and a float never equal a str.
PyIn(key, tup) == \E j \in DOMAIN tup : tup[j].kind = "str" /\ tup[j].str = key

\* doc["score"] as the comparison of line 40 would read it.
SubscriptScore(d) == d[2].num

\* filter_docs: doc_list holds the (chunk, score) tuples of raw_top_docs.
filter_docs(doc_list, threshold) ==
  SelectSeq(doc_list, LAMBDA d : ~(PyIn("score", d) /\ SubscriptScore(d) < threshold))

\* (a descending sort that is the reverse of the ascending one: ties reversed)
sorted_reverse_flipped(seq, keys) ==
  LET n == Len(seq)
      rank(j) == Cardinality({x \in 1..n : keys[x] > keys[j]
                                            \/ (keys[x] = keys[j] /\ x > j)}) + 1
  IN [r \in 1..n |-> seq[CHOOSE j \in 1..n : rank(j) = r]]

\* sorted(seq, key=..., reverse=True): descending, equal keys in their
\* original order.
sorted_reverse(seq, keys) ==
  LET n == Len(seq)
      rank(j) == Cardinality({x \in 1..n : keys[x] > keys[j]
                                            \/ (keys[x] = keys[j] /\ x < j)}) + 1
  IN [r \in 1..n |-> seq[CHOOSE j \in 1..n : rank(j) = r]]

\* Line 156: raw_top_docs.
raw_sorted(cs, scores) ==
  sorted_reverse([j \in 1..Len(cs) |-> <<DictVal(cs[j]), FloatVal(scores[j])>>], scores)

\* seq[:n] for n >= 0.
Prefix(seq, n) == SubSeq(seq, 1, Min2(n, Len(seq)))

InitRerank ==
  /\ \E n \in 0..MaxRecall :
       /\ chunks = [j \in 1..n |-> j]
       /\ pred_scores \in [1..n -> RerankScores]
  /\ k \in TopKs
  /\ score_threshold \in Thresholds
  /\ raw_top_docs = <<>>
  /\ top_docs = <<>>
  /\ rr_pc = "ready"

IdleRerank ==
  /\ chunks = <<>>
  /\ pred_scores = <<>>
  /\ k = 0
  /\ score_threshold = 0
  /\ raw_top_docs = <<>>
  /\ top_docs = <<>>
  /\ rr_pc = "idle"

\* rerank_docs (lines 144-160).
RerankDocs ==
  /\ rr_pc = "ready"
  /\ IF Len(chunks) = 0
     THEN raw_top_docs' = <<>> /\ top_docs' = <<>>
     ELSE /\ raw_top_docs' = raw_sorted(chunks, pred_scores)
          /\ top_docs' = Prefix(filter_docs(raw_top_docs', score_threshold), k)
  /\ rr_pc' = "done"
  /\ UNCHANGED <<chunks, pred_scores, k, score_threshold, splitVars, expandVars, workerVars, parseVars, storeVars, scoreVars, lineVars>>

-----------------------------------------------------------------------------
(* One expansion worker: geo_kb.py expand_doc, _find_raw_place, _expand    *)

\* Bound of the expansion model: the records of a chunk store.
MaxChunks == 5

\* The section names, chunk lengths and budgets of the enumerated stores,
\* and the rerank score handed to the worker.
SectionNames == {"A", "B"}
Lengths == {1, 3}
ExpandLens == {2, 5}
WorkerScores == {3}

\* A chunk store as add_file writes it: one record per chunk, the indices
\* consecutive from `first` in file order.  A record's text is named by its
\* index.
StoresFrom(first, n) ==
  { [j \in 1..n |-> [index |-> first + j - 1, section |-> f[j].section,
                      length |-> f[j].length, text |-> <<first + j - 1>>]]
    : f \in [1..n -> [section : SectionNames, length : Lengths]] }

\* Scenario C of the specification: index 10 (200) with the neighbours
\* 8 (150), 9 (150), 11 (150) and 12 (700) in one section.
ScenarioCRows ==
  << [index |-> 8, section |-> "A", length |-> 150, text |-> <<8>>],
     [index |-> 9, section |-> "A", length |-> 150, text |-> <<9>>],
     [index |-> 10, section |-> "A", length |-> 200, text |-> <<10>>],
     [index |-> 11, section |-> "A", length |-> 150, text |-> <<11>>],
     [index |-> 12, section |-> "A", length |-> 700, text |-> <<12>>] >>
ScenarioCCand ==
  [index |-> 10, section |-> "A", length |-> 200, text |-> <<10>>, score |-> 3]
EXPAND_RANGE == 1024

\* (a section filter that keeps every record of the file)
section_rows_all(rs, d) == rs

\* Lines 237-241: the records of the candidate's section.
section_rows(rs, d) == SelectSeq(rs, LAMBDA r : r.section = d.section)

\* The dict chunks: index -> record (a later record of an index replaces an
\* earlier one).
chunks_of(rs, d) ==
  LET sr == section_rows(rs, d)
      keys == {sr[j].index : j \in 1..Len(sr)}
  IN [i \in keys |-> sr[SetMax({j \in 1..Len(sr) : sr[j].index = i})]]

\* (an _expand that adds every chunk it finds, whatever the budget)
RECURSIVE expand_loop_nocheck(_, _, _, _, _)
expand_loop_nocheck(chs, d, expand_range, n, el) ==
  IF n = 0
  THEN [doc_len |-> d.length, id_set |-> {d.index}, break_flag |-> FALSE]
  ELSE LET st == expand_loop_nocheck(chs, d, expand_range, n - 1, el)
           l == expand_range[n]
       IN IF l \notin DOMAIN chs THEN st
          ELSE [doc_len |-> st.doc_len + chs[l].length,
                id_set |-> st.id_set \cup {l}, break_flag |-> FALSE]

\* _expand: the loop's state after expand_range[1..n]; a break leaves the
\* state as it is for the rest of the range.
RECURSIVE expand_loop(_, _, _, _, _)
expand_loop(chs, d, expand_range, n, el) ==
  IF n = 0
  THEN [doc_len |-> d.length, id_set |-> {d.index}, break_flag |-> FALSE]
  ELSE LET st == expand_loop(chs, d, expand_range, n - 1, el)
           l == expand_range[n]
           ind_list == DOMAIN chs
       IN IF st.break_flag THEN st
          ELSE IF l \notin DOMAIN chs THEN st
          ELSE IF SetMin(ind_list) <= l /\ l <= SetMax(ind_list)
               THEN IF chs[l].length + st.doc_len > el
                    THEN [st EXCEPT !.break_flag = TRUE]
                    ELSE [st EXCEPT !.doc_len = st.doc_len + chs[l].length,
                                    !.id_set = st.id_set \cup {l}]
               ELSE st

\* _find_raw_place: the loop's state after the radii 1..r of
\* range(1, max(max(ind_list) - ind, ind - min(ind_list))).
RECURSIVE find_loop(_, _, _, _)
find_loop(chs, d, el, r) ==
  IF r = 0 THEN [id_set |-> {d.index}, b_flag |-> FALSE]
  ELSE LET prev == find_loop(chs, d, el, r - 1)
           ex == expand_loop(chs, d, <<d.index + r, d.index - r>>, 2, el)
       IN IF prev.b_flag THEN prev
          ELSE [id_set |-> ex.id_set, b_flag |-> ex.break_flag]

\* The last radius of the range: range(1, m) ends at m - 1.
last_radius(chs, d) ==
  LET ind_list == DOMAIN chs
  IN Max2(Max2(SetMax(ind_list) - d.index, d.index - SetMin(ind_list)) - 1, 0)

\* sorted(list(id_set)).
SortedList(S) ==
  [r \in 1..Cardinality(S) |-> CHOOSE x \in S : Cardinality({y \in S : y < x}) = r - 1]

find_raw_place(chs, d, el) ==
  SortedList(find_loop(chs, d, el, last_radius(chs, d)).id_set)

\* Lines 246-251: the texts of id_list, concatenated up to the first index
\* that is not in chunks.
RECURSIVE expanded_text(_, _)
expanded_text(chs, id_list) ==
  IF id_list = <<>> \/ Head(id_list) \notin DOMAIN chs THEN <<>>
  ELSE chs[Head(id_list)].text \o expanded_text(chs, Tail(id_list))

\* The candidates recalled for index i: section and length as the vector
\* index holds them, which a store rewritten since may no longer match.
CandsAt(i) ==
  [index : {i}, section : SectionNames, length : Lengths, text : {<<i>>},
   score : WorkerScores]

InitExpand ==
  /\ \/ /\ file_exists = TRUE
        /\ file_readable = TRUE
        /\ \E n \in 1..MaxChunks :
             /\ rows \in StoresFrom(0, n)
             /\ \E i \in 0..(n - 1) : cand \in CandsAt(i)
        /\ expand_len \in ExpandLens
     \/ /\ file_exists \in BOOLEAN
        /\ file_readable = FALSE
        /\ rows = <<>>
        /\ cand \in CandsAt(0)
        /\ expand_len \in ExpandLens
     \/ /\ file_exists = TRUE
        /\ file_readable = TRUE
        /\ rows = ScenarioCRows
        /\ cand = ScenarioCCand
        /\ expand_len = EXPAND_RANGE
  /\ window = <<>>
  /\ put = <<>>
  /\ exp_pc = "ready"

IdleExpand ==
  /\ file_exists = FALSE
  /\ file_readable = FALSE
  /\ rows = <<>>
  /\ cand = [index |-> 0, section |-> "", length |-> 0, text |-> <<>>, score |-> 0]
  /\ expand_len = 0
  /\ window = <<>>
  /\ put = <<>>
  /\ exp_pc = "idle"

\* expand_doc (lines 229-254); put is what q.put receives.  open, readlines
\* and json.loads (lines 235-239) run outside any try: what they raise ends
\* the worker before it puts anything.
ExpandDoc ==
  /\ exp_pc = "ready"
  /\ IF ~file_exists
     THEN /\ window' = <<>>
          /\ put' = <<cand>>
          /\ exp_pc' = "fallback"
     ELSE IF ~file_readable
     THEN /\ window' = <<>>
          /\ put' = <<>>
          /\ exp_pc' = "raised"
     ELSE LET chs == chunks_of(rows, cand)
          IN IF cand.index \notin DOMAIN chs
             THEN /\ window' = <<>>
                  /\ put' = <<cand>>
                  /\ exp_pc' = "fallback"
             ELSE LET id_list == find_raw_place(chs, cand, expand_len)
                  IN /\ window' = id_list
                     /\ put' = <<[cand EXCEPT !.text = expanded_text(chs, id_list)]>>
                     /\ exp_pc' = "done"
  /\ UNCHANGED <<file_exists, file_readable, rows, cand, expand_len,
                 splitVars, rerankVars, workerVars, parseVars, storeVars, scoreVars, lineVars>>

-----------------------------------------------------------------------------
(* The fan-out: geo_kb.py expand_docs                                      *)

\* Bound of the fan-out model: the candidates handed to expand_docs (TOP_K).
MaxDocs == 3

\* The budgets expand_docs is called with, and the scores of the candidates.
FanOutLens == {0, 5}
FanOutScores == {2, 3}

\* The candidate lists: tuples (doc, score) as rerank_docs returns them.
DocLists ==
  UNION { { [j \in 1..n |-> <<DictVal(j), FloatVal(f[j])>>] : f \in [1..n -> FanOutScores] }
          : n \in 0..MaxDocs }

\* q.get(timeout=...) of multiprocessing.Queue raises queue.Empty when
\* nothing arrives in time (line 177); line 178 handles TimeoutError only.
\* queue.Empty derives from Exception, not from TimeoutError.
QueueGetRaises == "Empty"
Handled == {"TimeoutError"}

\* What a worker puts on its queue for docs[j]: the doc with its score
\* attached, its text expanded or (lookup miss) unchanged.
WorkerDoc(j, expanded) ==
  [id |-> docs[j][1].id, score |-> docs[j][2].num, expanded |-> expanded]

\* The doc of candidate j with its text unchanged and its score attached.
Unexpanded(j) == WorkerDoc(j, FALSE)

InitWorkers ==
  /\ docs \in DocLists
  /\ ed_expand_len \in FanOutLens
  /\ jobs = <<>>
  /\ res = <<>>
  /\ results = <<>>
  /\ ed_i = 0
  /\ ed_exc = ""
  /\ put_order = <<>>
  /\ ed_pc = "start"

IdleWorkers ==
  /\ docs = <<>>
  /\ ed_expand_len = 0
  /\ jobs = <<>>
  /\ res = <<>>
  /\ results = <<>>
  /\ ed_i = 0
  /\ ed_exc = ""
  /\ put_order = <<>>
  /\ ed_pc = "idle"

\* Lines 165-173: one queue and one started process per candidate.
StartWorkers ==
  /\ ed_pc = "start"
  /\ ed_expand_len > 0
  /\ jobs' = [j \in 1..Len(docs) |-> "running"]
  /\ res' = [j \in 1..Len(docs) |-> <<>>]
  /\ ed_i' = 1
  /\ ed_pc' = IF Len(docs) = 0 THEN "returned" ELSE "collect"
  /\ UNCHANGED <<docs, ed_expand_len, results, ed_exc, put_order,
                 splitVars, rerankVars, expandVars, parseVars, storeVars, scoreVars, lineVars>>

\* Lines 190-193: no worker; doc is the metadata dict of vector_search, and
\* doc.metadata of a dict raises AttributeError on the first candidate.
SkipExpansion ==
  /\ ed_pc = "start"
  /\ ed_expand_len <= 0
  /\ IF Len(docs) = 0
     THEN ed_pc' = "returned" /\ ed_exc' = ""
     ELSE ed_pc' = "raised" /\ ed_exc' = "AttributeError"
  /\ UNCHANGED <<docs, ed_expand_len, jobs, res, results, ed_i, put_order,
                 splitVars, rerankVars, expandVars, parseVars, storeVars, scoreVars, lineVars>>

\* A worker process runs expand_doc to its q.put and exits.
WorkerPut(j) ==
  /\ j \in 1..Len(jobs)
  /\ jobs[j] = "running"
  /\ \E expanded \in BOOLEAN : res' = [res EXCEPT ![j] = <<WorkerDoc(j, expanded)>>]
  /\ jobs' = [jobs EXCEPT ![j] = "exited"]
  /\ put_order' = Append(put_order, j)
  /\ UNCHANGED <<docs, ed_expand_len, results, ed_i, ed_exc, ed_pc,
                 splitVars, rerankVars, expandVars, parseVars, storeVars, scoreVars, lineVars>>

\* (a collector that takes whichever queue has a doc, in completion order)
GetResult_any ==
  /\ ed_pc = "collect"
  /\ \E j \in 1..Len(res) :
       /\ res[j] # <<>>
       /\ results' = Append(results, Head(res[j]))
       /\ res' = [res EXCEPT ![j] = <<>>]
  /\ ed_i' = ed_i + 1
  /\ ed_pc' = IF ed_i = Len(docs) THEN "returned" ELSE "collect"
  /\ UNCHANGED <<docs, ed_expand_len, jobs, ed_exc, put_order,
                 splitVars, rerankVars, expandVars, parseVars, storeVars, scoreVars, lineVars>>

\* Lines 176-177, 188-189: q.get returns the worker's doc in time.
GetResult ==
  /\ ed_pc = "collect"
  /\ res[ed_i] # <<>>
  /\ results' = Append(results, Head(res[ed_i]))
  /\ res' = [res EXCEPT ![ed_i] = <<>>]
  /\ ed_i' = ed_i + 1
  /\ ed_pc' = IF ed_i = Len(docs) THEN "returned" ELSE "collect"
  /\ UNCHANGED <<docs, ed_expand_len, jobs, ed_exc, put_order,
                 splitVars, rerankVars, expandVars, parseVars, storeVars, scoreVars, lineVars>>

\* Lines 176-189: worker ed_i has put nothing when the timeout ends.  The
\* handler of line 178 runs only for an exception it handles; there n_doc is
\* the metadata dict of docs[i], and n_doc.metadata raises AttributeError
\* before the worker is terminated.  Any other exception leaves expand_docs.
GetTimeout ==
  /\ ed_pc = "collect"
  /\ res[ed_i] = <<>>
  /\ jobs[ed_i] = "running"
  /\ ed_exc' = IF QueueGetRaises \in Handled THEN "AttributeError" ELSE QueueGetRaises
  /\ ed_pc' = "raised"
  /\ UNCHANGED <<docs, ed_expand_len, jobs, res, results, ed_i, put_order,
                 splitVars, rerankVars, expandVars, parseVars, storeVars, scoreVars, lineVars>>

-----------------------------------------------------------------------------
(* Specifications.                                                         *)

NextSplit == SplitText
InitSplitSpec ==
  InitSplit /\ IdleRerank /\ IdleExpand /\ IdleWorkers /\ IdleParse /\ IdleStore /\ IdleScore
    /\ IdleLines
SpecSplit == InitSplitSpec /\ [][NextSplit]_vars

NextRerank == RerankDocs
InitRerankSpec ==
  IdleSplit /\ InitRerank /\ IdleExpand /\ IdleWorkers /\ IdleParse /\ IdleStore /\ IdleScore
    /\ IdleLines
SpecRerank == InitRerankSpec /\ [][NextRerank]_vars

NextExpand == ExpandDoc
InitExpandSpec ==
  IdleSplit /\ IdleRerank /\ InitExpand /\ IdleWorkers /\ IdleParse /\ IdleStore /\ IdleScore
    /\ IdleLines
SpecExpand == InitExpandSpec /\ [][NextExpand]_vars

NextWorkers ==
  \/ StartWorkers
  \/ SkipExpansion
  \/ \E j \in 1..MaxDocs : WorkerPut(j)
  \/ GetResult
  \/ GetTimeout
InitWorkersSpec ==
  IdleSplit /\ IdleRerank /\ IdleExpand /\ InitWorkers /\ IdleParse /\ IdleStore /\ IdleScore
    /\ IdleLines
SpecWorkers == InitWorkersSpec /\ [][NextWorkers]_vars

NextAddFile ==
  \/ AddFileSplit
  \/ AddFileSplitRaises
  \/ OpenChunkFile
  \/ OpenRaises
  \/ WriteRow
  \/ WriteRaises
  \/ AddTexts
  \/ AddTextsRaises
InitAddFileSpec ==
  IdleSplit /\ IdleRerank /\ IdleExpand /\ IdleWorkers /\ InitParse /\ InitStore /\ IdleScore
    /\ IdleLines
SpecAddFile == InitAddFileSpec /\ [][NextAddFile]_vars

NextReingest == NextAddFile \/ ReaderReads
InitReingestSpec == InitAddFileSpec /\ ls \in ReingestTexts
SpecReingest == InitReingestSpec /\ [][NextReingest]_vars

NextScore == ModelResultReturns \/ ModelResultRaises
InitScoreSpec ==
  IdleSplit /\ IdleRerank /\ IdleExpand /\ IdleWorkers /\ IdleParse /\ IdleStore /\ InitScore
    /\ IdleLines
SpecScore == InitScoreSpec /\ [][NextScore]_vars

NextLines == SplitPara
InitLinesSpec ==
  IdleSplit /\ IdleRerank /\ IdleExpand /\ IdleWorkers /\ IdleParse /\ IdleStore /\ IdleScore
    /\ InitLines
SpecLines == InitLinesSpec /\ [][NextLines]_vars

-----------------------------------------------------------------------------
(* Claims about ingestion.                                                 *)

\* C1: every chunk split_text emits has length <= max_size, unless it
\* consists of exactly one sentence whose own token size exceeds max_size.
C1_ChunkWithinBudget ==
  ing_pc = "done" =>
    \A c \in 1..Len(data) :
      \/ data[c].length <= max_size
      \/ /\ Len(data[c].text) = 1
         /\ TokLen(doc[data[c].section][data[c].text[1]].w) > max_size

\* C1 witness: a document was split into a chunk of several sentences that
\* fits and a chunk of one sentence that alone exceeds the budget.
C1_Witness ==
  /\ ing_pc = "done"
  /\ \E c \in 1..Len(data) : Len(data[c].text) > 1 /\ data[c].length <= max_size
  /\ \E c \in 1..Len(data) : Len(data[c].text) = 1 /\ data[c].length > max_size
\* The chunks of data that belong to section s, in index order.
ChunksOfSection(s) == SelectSeq(data, LAMBDA c : c.section = s)

\* The texts of a sequence of chunks, concatenated.
ConcatTexts(cs) == Flatten([c \in 1..Len(cs) |-> cs[c].text])

\* The sum of the token sizes of the member sentences of a chunk, each
\* measured as split_long_para measures a sentence.
MemberSizes(c) ==
  SeqSum([j \in 1..Len(c.text) |-> TokLen(doc[c.section][c.text[j]].w)])

\* The chunks of every section partition its sentence sequence in order.
PartitionsSentences ==
  \A s \in 1..Len(doc) :
    ConcatTexts(ChunksOfSection(s)) = [j \in 1..Len(doc[s]) |-> j]

CutCalls ==
  UNION { { <<s, reset_calls[s][c]>> :
              c \in {y \in 1..Len(reset_calls[s]) : reset_calls[s][y].ind > 0} }
          : s \in 1..Len(reset_calls) }

\* The boundary a call cut at lies before the sentence sentences[ind] (0-based);
\* it was skipped by the scorer when that sentence is not in sent_ids.
CutSentence(call) == call.sentences[call.ind + 1]
CutIsSkipped(s, call) == CutSentence(call).i \notin sent_ids(doc[s])

\* C17 as stated: the splitter never cuts at a boundary whose sentence pair
\* was skipped by the scorer.
C17_AsStated ==
  ing_pc = "done" => \A sc \in CutCalls : ~CutIsSkipped(sc[1], sc[2])

\* C17 amended: the splitter cuts at a skipped boundary only when no boundary
\* of the run it is cutting has a score below the default 1; the cut is then
\* the first boundary of the run.  A run with a boundary scored below 1 is
\* never cut at a skipped one.
C17_SkippedCutOnlyWithoutLower ==
  ing_pc = "done" =>
    \A sc \in CutCalls :
      CutIsSkipped(sc[1], sc[2]) =>
        /\ \A j \in 2..Len(sc[2].sentences) : sc[2].sentences[j].score = ScoreOne
        /\ sc[2].ind = 1

\* C17 witness: in one section a run with a skipped boundary and a boundary
\* scored below 1 was cut at the scored one, and a run all of whose
\* boundaries were skipped was cut at its first.
C17_Witness ==
  /\ ing_pc = "done"
  /\ \E sc \in CutCalls :
       /\ ~CutIsSkipped(sc[1], sc[2])
       /\ \E j \in 2..Len(sc[2].sentences) :
            sc[2].sentences[j].i \notin sent_ids(doc[sc[1]])
  /\ \E sc \in CutCalls : CutIsSkipped(sc[1], sc[2])

\* C20: a call of the splitter on more than one sentence whose sizes sum to
\* more than max_size cuts at the position p in 1..n-1 of minimum boundary
\* score, the first on ties, and recurses on [0, p) and then on [p, n); any
\* other call cuts nowhere and emits its run as one fragment.  The fragments
\* are the runs of the calls that cut nowhere, in call order.
C20_CutAtFirstMinimum ==
  ing_pc = "done" =>
    \A s \in 1..Len(doc) :
      LET calls == reset_calls[s]
          whole == SelectSeq(calls, LAMBDA c : c.ind = 0)
      IN /\ splitter_runs(doc[s], max_size) =>
              /\ Len(calls) > 0
              /\ [j \in 1..Len(calls[1].sentences) |-> calls[1].sentences[j].i]
                   = [j \in 1..Len(doc[s]) |-> j - 1]
         /\ temp_chunks[s] = [c \in 1..Len(whole) |-> whole[c].sentences]
         /\ \A c \in 1..Len(calls) :
              LET sens == calls[c].sentences
                  n == Len(sens)
                  p == calls[c].ind
              IN IF n > 1 /\ total_of(sens) > max_size
                 THEN /\ p \in 1..(n - 1)
                      /\ \A q \in 1..(n - 1) : sens[q + 1].score >= sens[p + 1].score
                      /\ \A q \in 1..(p - 1) : sens[q + 1].score > sens[p + 1].score
                      /\ c + 1 <= Len(calls)
                      /\ calls[c + 1].sentences = SubSeq(sens, 1, p)
                      /\ \E d \in (c + 2)..Len(calls) :
                           calls[d].sentences = SubSeq(sens, p + 1, n)
                 ELSE p = 0

\* C20 witness: a run of three sentences was cut at the first of two
\* positions of equal minimum score, and its right half was cut again.
C20_Witness ==
  /\ ing_pc = "done"
  /\ \E s \in 1..Len(doc) :
       /\ Len(reset_calls[s]) = 5
       /\ reset_calls[s][1].ind = 1
       /\ reset_calls[s][1].sentences[2].score = reset_calls[s][1].sentences[3].score
       /\ reset_calls[s][3].ind = 1
       /\ Len(temp_chunks[s]) = 3

\* C21: the recursive splitter terminates on every finite run: every call
\* is on a non-empty run, a call that cuts cuts at a position 1..n-1, so that
\* both halves are non-empty and shorter than the run, and a run of n
\* sentences takes at most 2n-1 calls.  Every fragment emitted is non-empty
\* and either its sizes sum to at most max_size or it is a single sentence.
C21_SplitterTerminates ==
  ing_pc = "done" =>
    \A s \in 1..Len(doc) :
      /\ Len(reset_calls[s]) <= 2 * Len(doc[s]) - 1
      /\ \A c \in 1..Len(reset_calls[s]) :
           LET sens == reset_calls[s][c].sentences
               ind == reset_calls[s][c].ind
           IN /\ Len(sens) >= 1
              /\ ind # 0 =>
                   /\ Len(SubSeq(sens, 1, ind)) \in 1..(Len(sens) - 1)
                   /\ Len(SubSeq(sens, ind + 1, Len(sens))) \in 1..(Len(sens) - 1)
      /\ \A f \in 1..Len(temp_chunks[s]) :
           /\ Len(temp_chunks[s][f]) >= 1
           /\ \/ total_of(temp_chunks[s][f]) <= max_size
              \/ Len(temp_chunks[s][f]) = 1

\* C21 witness: a run was cut into a fragment of several sentences that fits
\* and a fragment of one sentence that alone exceeds max_size.
C21_Witness ==
  /\ ing_pc = "done"
  /\ \E s \in 1..Len(doc) :
       /\ \E c \in 1..Len(reset_calls[s]) : reset_calls[s][c].ind # 0
       /\ \E f \in 1..Len(temp_chunks[s]) :
            Len(temp_chunks[s][f]) > 1 /\ total_of(temp_chunks[s][f]) <= max_size
       /\ \E f \in 1..Len(temp_chunks[s]) :
            Len(temp_chunks[s][f]) = 1 /\ total_of(temp_chunks[s][f]) > max_size

\* The fragments of section s whose first sentence lies in the chunk c.
FragmentsIn(s, c) ==
  {f \in 1..Len(temp_chunks[s]) : \E j \in 1..Len(c.text) :
                                     c.text[j] = temp_chunks[s][f][1].sen}

\* The sentences of the fragments lo..hi of section s, in order.
FragmentTexts(s, lo, hi) ==
  Flatten([f \in 1..(hi - lo + 1) |->
             [j \in 1..Len(temp_chunks[s][lo + f - 1]) |->
                temp_chunks[s][lo + f - 1][j].sen]])

\* The sizes of the fragments lo..hi of section s, summed.
FragmentSizes(s, lo, hi) ==
  SeqSum([f \in 1..(hi - lo + 1) |-> total_of(temp_chunks[s][lo + f - 1])])

\* C22: the merger is greedy over the fragments in their order.  Every chunk
\* of a section the splitter ran on is a run of consecutive whole fragments; a
\* fragment joined the running chunk exactly when the running total plus its
\* size was at most max_size; and of two consecutive chunks, the length of
\* the first plus the size of the first fragment of the second exceeds
\* max_size.
C22_GreedyMerge ==
  ing_pc = "done" =>
    \A s \in 1..Len(doc) :
      splitter_runs(doc[s], max_size) =>
        LET cs == ChunksOfSection(s)
        IN \A c \in 1..Len(cs) :
             LET in == FragmentsIn(s, cs[c])
             IN /\ in # {}
                /\ in = SetMin(in)..SetMax(in)
                /\ cs[c].text = FragmentTexts(s, SetMin(in), SetMax(in))
                /\ \A f \in in \ {SetMin(in)} :
                     FragmentSizes(s, SetMin(in), f - 1)
                       + total_of(temp_chunks[s][f]) <= max_size
                /\ c > 1 =>
                     cs[c - 1].length + total_of(temp_chunks[s][SetMin(in)]) > max_size

\* C22 witness: of three fragments the first two were joined into one chunk
\* and the third, which did not fit, started the next.
C22_Witness ==
  /\ ing_pc = "done"
  /\ \E s \in 1..Len(doc) :
       /\ Len(temp_chunks[s]) = 3
       /\ Len(ChunksOfSection(s)) = 2
       /\ FragmentsIn(s, ChunksOfSection(s)[1]) = {1, 2}
       /\ FragmentsIn(s, ChunksOfSection(s)[2]) = {3}

\* C14: the chunks of a document carry the indices 0, 1, ..., n-1 in
\* emission order; the sections are processed in increasing sectionIndex
\* order and the counter is not reset between them; the chunk store add_file
\* writes holds the records in increasing index order.
C14_GlobalIndices ==
  /\ md_pc = "done" =>
       /\ \A c \in 1..Len(md_data) : md_data[c].index = c - 1
       /\ \A a, b \in 1..Len(s_dict) : a < b => s_dict[a][1] < s_dict[b][1]
       /\ \A a, b \in 1..Len(md_data) : a < b => md_data[a].s_index <= md_data[b].s_index
  /\ af_pc \in {"writing", "written", "returned"} =>
       \A j \in 1..Len(chunk_file.rows) : chunk_file.rows[j].index = j - 1
  /\ af_pc \in {"written", "returned"} => Len(chunk_file.rows) = Len(md_data)

\* C14 witness: add_file returned for a text whose first section gave two
\* chunks and whose next section gave the chunk of index 2, and the chunk
\* store holds the three records.
C14_Witness ==
  /\ af_pc = "returned"
  /\ Len(md_data) >= 3
  /\ md_data[2].s_index = md_data[1].s_index
  /\ md_data[3].s_index > md_data[2].s_index
  /\ md_data[3].index = 2
  /\ chunk_file.rows = md_data

\* C15: every section of s_dict whose paragraph fits max_size yields exactly
\* one chunk, carrying the section's name; Scenario A (scaled: "Introduction"
\* and "Conclusion" of 4 tokens each, MAX_SIZE 7) yields exactly two chunks,
\* of indices 0 and 1, one per section.
C15_ScenarioA ==
  md_pc = "done" =>
    /\ \A e \in 1..Len(s_dict) :
         para_size(run_of(s_dict[e][2])) <= md_max_size =>
           /\ Cardinality({c \in 1..Len(md_data) : md_data[c].s_index = s_dict[e][1]}) = 1
           /\ \A c \in 1..Len(md_data) :
                md_data[c].s_index = s_dict[e][1]
                  => md_data[c].section = sections[s_dict[e][1]][1]
    /\ (ls = ScenarioALines /\ md_max_size = ScenarioAMaxSize) =>
         /\ Len(md_data) = 2
         /\ md_data[1].index = 0 /\ md_data[1].section = "Introduction"
         /\ md_data[2].index = 1 /\ md_data[2].section = "Conclusion"

\* The position of the last level-1 heading of a text, 0 without one.
LastTitle(lines) ==
  SetMax({0} \cup {j \in 1..Len(lines) : has_match(lines[j]) /\ cal_size(lines[j]) = 1})

\* C23: a heading line after the last Title line that is of level 2, or whose
\* text contains a keyword of SECTIONS, is classified as a Section: the pair
\* (its text, "") is recorded in the section map.  In particular a level-2
\* heading "Introduction" is recorded.
C23_KeywordHeadingIsSection ==
  md_pc = "done" =>
    \A j \in (LastTitle(ls) + 1)..Len(ls) :
      (has_match(ls[j]) /\ (cal_size(ls[j]) = 2 \/ check_section(ls[j].name))) =>
        \E i \in DOMAIN sections \ {0} : sections[i] = <<ls[j].name, "">>

\* C24: no chunk is emitted for the first recorded section whose name is in
\* the filtered set nor for any section after it, whether or not the
\* filtered section has paragraphs of its own.
C24_TruncatesAtFiltered ==
  md_pc = "done" =>
    LET filtered == {i \in DOMAIN sections : filter_section(sections[i][1])}
    IN filtered # {} =>
         \A c \in 1..Len(md_data) : md_data[c].s_index < SetMin(filtered)

\* C26: a Title line resets the section tree, so the section map, the
\* paragraph lists and the chunks of a text are those of the lines after its
\* last Title line: no line before it is chunked or recorded, and a text
\* that ends with a Title line has the root entry alone and no chunk.
C26_TitleResets ==
  md_pc = "done" =>
    LET t == LastTitle(ls)
        after == SubSeq(ls, t + 1, Len(ls))
        r == refine_structure(extract_outlines(after, Len(after)))
    IN /\ sections = r.sections
       /\ s_dict = r.s_dict
       /\ md_data = md_sections(r.sections, r.s_dict, Len(r.s_dict), md_max_size)
       /\ DOMAIN sections \subseteq 0..Len(after)
       /\ SeqSum([c \in 1..Len(md_data) |-> Len(md_data[c].text)]) <= Len(after)
       /\ (t > 0 /\ t = Len(ls)) =>
            /\ sections = [x \in {0} |-> <<"", "">>]
            /\ s_dict = <<>>
            /\ md_data = <<>>

\* C26 witness: a text with a section and a paragraph before its Title line
\* and one paragraph after it gave the chunk of that one paragraph, in
\* section 0.
C26_Witness ==
  /\ md_pc = "done"
  /\ Len(ls) = 4
  /\ ls[1] = Heading(2, "Methods")
  /\ ls[2] = Para(2)
  /\ ls[3] = Heading(1, "Title")
  /\ ls[4] = Para(2)
  /\ Len(md_data) = 1
  /\ md_data[1].s_index = 0
  /\ md_data[1].text = <<1>>

\* C16: model_predict calls the model at most three times: at the configured
\* batch size, after a RuntimeError at half of it, after a second one at a
\* quarter; it returns the scores of the first call that succeeds, and a
\* RuntimeError of the third call leaves model_predict.
C16_ThreeAttempts ==
  /\ Len(mp_calls) <= 3
  /\ \A c \in 1..Len(mp_calls) :
       mp_calls[c].batch_size = (CASE c = 1 -> mp_batch_size
                                   [] c = 2 -> mp_batch_size \div 2
                                   [] c = 3 -> mp_batch_size \div 4)
  /\ \A c \in 1..(Len(mp_calls) - 1) : mp_calls[c].outcome = "RuntimeError"
  /\ mp_pc \in {"try1", "try2", "try3"} =>
       /\ mp_result = <<>>
       /\ \A c \in 1..Len(mp_calls) : mp_calls[c].outcome = "RuntimeError"
  /\ mp_pc = "returned" =>
       /\ mp_calls[Len(mp_calls)].outcome = "ok"
       /\ mp_result = mp_probs
  /\ mp_pc = "raised" =>
       /\ mp_calls[Len(mp_calls)].outcome = mp_exc
       /\ mp_exc = "RuntimeError" => Len(mp_calls) = 3

\* C16 witness: two calls failed with RuntimeError and the third, at a
\* quarter of the batch size, returned the scores of three pairs.
C16_Witness ==
  /\ mp_pc = "returned"
  /\ Len(mp_probs) = 3
  /\ Len(mp_calls) = 3
  /\ mp_calls[3] = [batch_size |-> 16, outcome |-> "ok"]
  /\ mp_result = mp_probs

\* C18: add_file is all-or-nothing for the chunk store: when an exception
\* leaves add_file, the chunk store file is exactly as it was at the call.
C18_AllOrNothing ==
  af_pc = "raised" => chunk_file = file_before

\* C30: after add_file has returned, every record of the vector index
\* agrees with the chunk store it points to: the store holds a record of its
\* index with the same section and text.  (The records of the model all
\* point to the one chunk store of the document's base name.)
C30_IndexAgreesWithStore ==
  af_pc = "returned" =>
    \A v \in 1..Len(vector_store) :
      \E j \in 1..Len(chunk_file.rows) :
        /\ chunk_file.rows[j].index = vector_store[v].index
        /\ chunk_file.rows[j].section = vector_store[v].section
        /\ chunk_file.rows[j].subsection = vector_store[v].subsection
        /\ chunk_file.rows[j].text = vector_store[v].text

\* C19: a reader of the document's chunk store beside add_file finds either
\* the complete previous store or the complete new one.
C19_ReaderSeesWholeSet ==
  seen # <<>> =>
    \/ seen[1] = file_before
    \/ md_pc = "done" /\ seen[1] = FileOf(md_data)

-----------------------------------------------------------------------------
(* Claims about line normalisation.                                        *)

\* The lines of a text that are not blank, stripped.
NonBlank(text) == SelectSeq(ls_0(text), LAMBDA i : ~is_empty(i))

\* The members of seq at the positions in S, in order.
SubAt(seq, S) ==
  [r \in 1..Cardinality(S) |->
     seq[CHOOSE j \in S : Cardinality({x \in S : x < j}) = r - 1]]

\* C25 as stated: a non-heading line is dropped only when it equals the line
\* immediately before it; one that repeats an earlier, non-adjacent line is
\* kept; heading lines are never dropped.
C25_AsStated ==
  sp_pc = "done" =>
    LET nb == NonBlank(sp_text)
        dropped == {j \in 1..Len(nb) :
                      ~startswith_hash(nb[j]) /\ j > 1 /\ nb[j - 1] = nb[j]}
    IN sp_ls = SubAt(nb, (1..Len(nb)) \ dropped)

\* C25 amended: a non-heading line is dropped exactly when an equal line
\* comes anywhere before it in the text, adjacent or not; heading lines are
\* never dropped; the lines kept stay in their order.
C25_DropsEveryRepeat ==
  sp_pc = "done" =>
    LET nb == NonBlank(sp_text)
        dropped == {j \in 1..Len(nb) :
                      ~startswith_hash(nb[j]) /\ \E x \in 1..(j - 1) : nb[x] = nb[j]}
    IN /\ sp_ls = SubAt(nb, (1..Len(nb)) \ dropped)
       /\ sp_err = SubAt(nb, dropped)
       /\ SelectSeq(sp_ls, startswith_hash) = SelectSeq(nb, startswith_hash)

\* C25 witness: of the lines a, # H, a, # H the second a, which repeats a
\* line that is not the one before it, was dropped and both headings kept.
C25_Witness ==
  /\ sp_pc = "done"
  /\ Len(sp_text) = 4
  /\ sp_ls = <<RawLine("para", "a", FALSE), RawLine("heading", "# H", FALSE),
               RawLine("heading", "# H", FALSE)>>
  /\ sp_err = <<RawLine("para", "a", FALSE)>>

-----------------------------------------------------------------------------
(* Claims about the expansion window.                                      *)

\* The indices of the chunk-store records of the candidate's section.
SectionIndexSet == {rows[j].index : j \in {x \in 1..Len(rows) : rows[x].section = cand.section}}

\* The record of the chunk store with index i (the last one, as the dict holds it).
RowAt(i) == rows[SetMax({j \in 1..Len(rows) : rows[j].index = i})]

RECURSIVE SumOver(_, _)
SumOver(S, f) ==
  IF S = {} THEN 0
  ELSE LET x == CHOOSE y \in S : TRUE IN f[x] + SumOver(S \ {x}, f)

\* The sum of the lengths of the chunk-store records whose indices are in W.
StoreLength(W) == SumOver(W, [i \in W |-> RowAt(i).length])

WindowSet == Range(window)

\* The candidate carries the section and length of its own record in the
\* chunk store.
CandInStore ==
  /\ cand.index \in SectionIndexSet
  /\ RowAt(cand.index).length = cand.length

\* C3 as stated: the lengths of the chunks in the window sum to at most
\* expand_len (> 0), for every candidate and chunk store (here already for
\* the candidates whose own record is in the store).
C3_AsStated ==
  (exp_pc = "done" /\ expand_len > 0 /\ CandInStore)
    => StoreLength(WindowSet) <= expand_len

\* C3 amended: when the candidate's own length is within expand_len, its
\* length plus the lengths of the other chunks of the window is at most
\* expand_len; a candidate that alone exceeds expand_len gets the window of
\* its own index only.
C3_WindowWithinBudget ==
  (exp_pc = "done" /\ expand_len > 0) =>
    IF cand.length <= expand_len
    THEN cand.length + StoreLength(WindowSet \ {cand.index}) <= expand_len
    ELSE window = <<cand.index>>

\* C3 witness: a window of three chunks that fills the budget exactly, in a
\* section that holds more chunks.
C3_Witness ==
  /\ exp_pc = "done"
  /\ CandInStore
  /\ Len(window) = 3
  /\ cand.length + StoreLength(WindowSet \ {cand.index}) = expand_len
  /\ Cardinality(SectionIndexSet) > 3

\* C4: the window contains the candidate's index and only indices of
\* chunk-store records of the candidate's section.
C4_WindowInSection ==
  exp_pc = "done" => (cand.index \in WindowSet /\ WindowSet \subseteq SectionIndexSet)

\* C4 witness: the window grew beyond the candidate although a record of
\* another section lies at the radius that was added.
C4_Witness ==
  /\ exp_pc = "done"
  /\ Len(window) = 2
  /\ \E j \in 1..Len(rows) :
       /\ rows[j].section # cand.section
       /\ \E i \in WindowSet \ {cand.index} :
            rows[j].index - cand.index = cand.index - i

\* C5: the window is index-contiguous: every index of the candidate's
\* section between the window's least and greatest index is in the window.
C5_WindowContiguous ==
  exp_pc = "done" =>
    \A i \in SectionIndexSet :
      (SetMin(WindowSet) <= i /\ i <= SetMax(WindowSet)) => i \in WindowSet

\* C6: Scenario C yields the window {8, 9, 10, 11} and leaves 12 out.
C6_ScenarioC ==
  (exp_pc = "done" /\ rows = ScenarioCRows /\ cand = ScenarioCCand
     /\ expand_len = EXPAND_RANGE)
    => window = <<8, 9, 10, 11>>

\* C28: when the lengths of all chunks of the candidate's section sum to at
\* most expand_len, the window is the section's whole index set (a section
\* of three consecutive indices with the candidate in the middle gives all
\* three).
C28_WholeSectionWhenFits ==
  (exp_pc = "done" /\ expand_len > 0 /\ CandInStore
     /\ StoreLength(SectionIndexSet) <= expand_len)
    => WindowSet = SectionIndexSet

\* The indices of the candidate's section in the order the expansion
\* considers them: by radius 1, 2, ..., at each radius index + radius before
\* index - radius.
RECURSIVE ConsideredUpTo(_)
ConsideredUpTo(r) ==
  IF r = 0 THEN <<>>
  ELSE ConsideredUpTo(r - 1)
         \o SelectSeq(<<cand.index + r, cand.index - r>>,
                      LAMBDA l : l \in SectionIndexSet)
Considered ==
  ConsideredUpTo(Max2(SetMax(SectionIndexSet) - cand.index,
                      cand.index - SetMin(SectionIndexSet)))

\* The candidate's length plus the lengths of the first n considered chunks.
RunningLength(n) ==
  cand.length + SeqSum([m \in 1..n |-> RowAt(Considered[m]).length])

\* C29: the expansion halts at the first overflow of the running length
\* accumulated over all chunks included so far: once a considered chunk
\* would make that length exceed expand_len, no chunk considered after it is
\* in the window.
C29_HaltsAtFirstOverflow ==
  (exp_pc = "done" /\ expand_len > 0 /\ CandInStore) =>
    \A n \in 1..Len(Considered) :
      RunningLength(n) > expand_len =>
        \A m \in (n + 1)..Len(Considered) : Considered[m] \notin WindowSet

\* C12: a lookup miss is a fallback: when the candidate's chunk store is
\* missing or unreadable, or the candidate's index is not among the records
\* of its section, the worker puts the chunk unchanged with its score
\* attached and does not fail.
C12_MissIsFallback ==
  (exp_pc # "ready"
     /\ (~file_exists \/ ~file_readable \/ cand.index \notin SectionIndexSet))
    => (exp_pc = "fallback" /\ put = <<cand>>)

-----------------------------------------------------------------------------
(* Claims about rerank and filter.                                         *)

\* The recall position and the score of an element of raw_top_docs.
PosOf(d) == d[1].id
ScoreOf(d) == d[2].num

\* C7: raw_top_docs holds every recalled candidate once, by score
\* descending, and candidates of equal score in recall order.
C7_SortedStable ==
  rr_pc = "done" =>
    /\ Len(raw_top_docs) = Len(chunks)
    /\ {PosOf(raw_top_docs[j]) : j \in 1..Len(raw_top_docs)} = Range(chunks)
    /\ \A j \in 1..Len(raw_top_docs) :
         ScoreOf(raw_top_docs[j]) = pred_scores[PosOf(raw_top_docs[j])]
    /\ \A a, b \in 1..Len(raw_top_docs) :
         a < b =>
           \/ ScoreOf(raw_top_docs[a]) > ScoreOf(raw_top_docs[b])
           \/ /\ ScoreOf(raw_top_docs[a]) = ScoreOf(raw_top_docs[b])
              /\ PosOf(raw_top_docs[a]) < PosOf(raw_top_docs[b])

\* C7 witness: a recall with a tie between two candidates and a higher
\* score recalled after them.
C7_Witness ==
  /\ rr_pc = "done"
  /\ \E a, b, c \in 1..Len(chunks) :
       /\ a < b /\ b < c
       /\ pred_scores[a] = pred_scores[b]
       /\ pred_scores[c] > pred_scores[a]
       /\ PosOf(raw_top_docs[1]) = c

\* C8: rerank_docs returns no candidate whose score is below the threshold.
C8_NoneBelowThreshold ==
  rr_pc = "done" =>
    \A j \in 1..Len(top_docs) : ScoreOf(top_docs[j]) >= score_threshold

\* The candidates that survive filtering, in score-sorted order.
Survivors == SelectSeq(raw_top_docs, LAMBDA d : ScoreOf(d) >= score_threshold)

\* C9: rerank_docs returns at most k candidates, and they are the first
\* ones, in score-sorted order, of the candidates that survive filtering.
C9_TopKOfSurvivors ==
  rr_pc = "done" =>
    /\ Len(top_docs) <= k
    /\ top_docs = Prefix(Survivors, k)

-----------------------------------------------------------------------------
(* Claims about the fan-out.                                               *)

\* C10: Scenario D: a worker that delivers nothing within the timeout is
\* replaced by its unexpanded chunk with the score attached, at its own
\* position, and expand_docs (so retrieval) returns one result per
\* candidate; the timeout never leaves expand_docs as a failure.
C10_ScenarioD ==
  ed_expand_len > 0 =>
    /\ ed_pc # "raised"
    /\ ed_pc = "returned" =>
         /\ Len(results) = Len(docs)
         /\ \A j \in 1..Len(results) :
              results[j] \in {WorkerDoc(j, TRUE), Unexpanded(j)}

\* C11: whenever expand_docs returns, its output has one element per
\* candidate and the i-th element is the result of the i-th candidate's
\* worker, whatever the order in which the workers delivered.
C11_RankOrderKept ==
  ed_pc = "returned" =>
    /\ Len(results) = Len(docs)
    /\ \A j \in 1..Len(results) :
         /\ results[j].id = docs[j][1].id
         /\ results[j].score = docs[j][2].num

\* C11 witness: three workers delivered in the reverse of the rank order,
\* one with a lookup miss, and expand_docs returned.
C11_Witness ==
  /\ ed_pc = "returned"
  /\ Len(docs) = 3
  /\ put_order = <<3, 2, 1>>
  /\ \E j \in 1..3 : ~results[j].expanded
  /\ \E j \in 1..3 : results[j].expanded

\* C27: when the q.get of worker ed_i timed out, that worker has been
\* terminated and runs no longer, no other worker has been terminated, and
\* expand_docs goes on to collect the results of the remaining workers.
C27_TimedOutWorkerTerminated ==
  (ed_expand_len > 0 /\ ed_exc # "") =>
    /\ jobs[ed_i] = "terminated"
    /\ \A j \in 1..Len(jobs) : j # ed_i => jobs[j] # "terminated"
    /\ ed_pc \in {"collect", "returned"}

\* C13: with expand_len <= 0 expand_docs starts no worker and returns every
\* candidate with its text unchanged and its score attached, in rank order.
C13_SkipReturnsUnchanged ==
  ed_expand_len <= 0 =>
    /\ jobs = <<>>
    /\ ed_pc # "raised"
    /\ ed_pc = "returned" => results = [j \in 1..Len(docs) |-> Unexpanded(j)]

=============================================================================
